---- MODULE Spec2Model ----
(***************************************************************************)
(* A model of src/libbpftune.c: the sysctl transaction layer, the tunable  *)
(* store, the tuner registry, the ring-buffer dispatcher and the network   *)
(* namespace resolver.                                                     *)
(*                                                                         *)
(* Every library call is one atomic step (the library is single-threaded). *)
(* What the kernel or the C library answers (an open that fails, a setns   *)
(* on a descriptor that is no network namespace) is part of the state or   *)
(* an input of the step.                                                   *)
(***************************************************************************)
EXTENDS Integers, Sequences, FiniteSets, TLC

(***************************************************************************)
(* Bounds of the model.                                                    *)
(***************************************************************************)
\* network namespaces 1..NumNs; the process starts in namespace 1
NumNs == 2
\* sysctl values are 0..MaxVal
MaxVal == 1
\* an occurrence counter is followed up to MaxCount
MaxCount == 1
\* the tuner table has BPFTUNE_MAX_TUNERS slots (scaled down); the model
\* follows MaxOverflow loads past a full table
BPFTUNE_MAX_TUNERS == 2
MaxOverflow == 1
\* /proc/mounts holds at most MaxMounts nsfs entries
MaxMounts == 2
\* a tuner's namespace list is followed up to MaxNetns nodes
MaxNetns == 2
\* the occurrence counters are followed up to MaxEvents occurrences in all
MaxEvents == 2
\* up to MaxFini calls of bpftuner_fini go past the state test
MaxFini == 2

(***************************************************************************)
(* Constants of the program.                                               *)
(***************************************************************************)
BPFTUNE_MAX_VALUES == 3
ENOENT == 2
EBADF == 9
EACCES == 13
EINVAL == 22
EMFILE == 24

VARIABLES
    curns,      \* network namespace the calling thread is in
    sysctl,     \* /proc/sys: path -> [mode, pernet, val: namespace -> content]
    procs,      \* the other processes: pid -> network namespace
    mounts,     \* the nsfs entries of /proc/mounts, in order
    kernel_cookie,          \* the kernel answers SO_NETNS_COOKIE
    bpftune_tuners,         \* the tuner table
    bpftune_num_tuners,
    oob,                    \* what was stored past the end of the table
    netns_cookie_supported,
    global_netns_cookie,
    ring_buffer_done,
    pollpc,     \* where bpftune_ring_buffer_poll stands
    rb_freed,   \* how often ring_buffer__free was called
    ring_buffer_map_fd,     \* the shared descriptors, 0 when unset
    corr_map_fd,
    open_fds,   \* the BPF map descriptors the process holds open
    fini_calls, \* the bpftuner_fini calls that went past the state test
    summaries,  \* the summary lines logged, in order
    last        \* the library call that returned last, with what it did

kvars == <<curns, sysctl>>
envvars == <<procs, mounts, kernel_cookie>>
regvars == <<bpftune_tuners, bpftune_num_tuners, oob>>
nsvars == <<netns_cookie_supported, global_netns_cookie>>
rbvars == <<ring_buffer_done, pollpc, rb_freed>>
bpfvars == <<ring_buffer_map_fd, corr_map_fd, open_fds>>
logvars == <<fini_calls, summaries>>
vars == <<curns, sysctl, procs, mounts, kernel_cookie, bpftune_tuners,
          bpftune_num_tuners, oob, netns_cookie_supported,
          global_netns_cookie, ring_buffer_done, pollpc, rb_freed,
          ring_buffer_map_fd, corr_map_fd, open_fds, fini_calls, summaries,
          last>>

Namespaces == 1..NumNs
Vals == 0..MaxVal
GlobalNs == CHOOSE n \in Namespaces : \A m \in Namespaces : n <= m

(***************************************************************************)
(* Descriptors.  A descriptor is a number; the model names a descriptor by *)
(* the namespace it refers to: NsFd(n) is a descriptor the caller holds on *)
(* namespace n, SelfFd(n) the one open("/proc/self/ns/net") returns while  *)
(* the thread is in n.  BadFd is an open descriptor that is not a network  *)
(* namespace (setns fails on it).                                          *)
(***************************************************************************)
NsFd(n) == 10 + n
SelfFd(n) == 20 + n
BadFd == NsFd(0)
IsNsFd(fd) == \E n \in Namespaces : fd \in {NsFd(n), SelfFd(n)}
FdNs(fd) == CHOOSE n \in Namespaces : fd \in {NsFd(n), SelfFd(n)}
CallerFds == {0, BadFd} \cup {NsFd(n) : n \in Namespaces}

(***************************************************************************)
(* Sysctl names: sequences of characters.                                  *)
(***************************************************************************)
NameN == <<"n", ".", "m">>      \* per-namespace setting, one value
NameG == <<"k", ".", "g">>      \* global setting, two values
NameW == <<"w", ".", "o">>      \* write-only trigger file
NameT == <<"t", ".", "x">>      \* read-only textual setting
NameE == <<"e", ".", "y">>      \* reads as an empty file
Names == {NameN, NameW, NameT, NameE}

BPFTUNE_PROC_SYS == <<"/", "proc", "/", "sys", "/">>

\* snprintf the prefix and the name, then turn every '.' into '/'
bpftune_sysctl_name_to_path(name) ==
    LET p == BPFTUNE_PROC_SYS \o name
    IN  [i \in 1..Len(p) |-> IF p[i] = "." THEN "/" ELSE p[i]]

(***************************************************************************)
(* The kernel side of /proc/sys.  A content is the numbers the file shows  *)
(* and whether other text follows them.                                    *)
(***************************************************************************)
Nums(s) == [nums |-> s, text |-> FALSE]
Text == [nums |-> <<>>, text |-> TRUE]

\* fopen(path, how): 0, or the errno
Fopen(fs, path, how) ==
    IF path \notin DOMAIN fs THEN ENOENT
    ELSE IF how \notin fs[path].mode THEN EACCES
    ELSE 0

KContentGlobal(fs, path, ns) == fs[path].val[GlobalNs]

\* what the file at path shows to a thread in namespace ns
KContent(fs, path, ns) == fs[path].val[IF fs[path].pernet THEN ns ELSE GlobalNs]

\* fscanf(fp, "%ld %ld %ld", ...): the number of values converted, 0 when
\* the first token is no number, EOF (-1) on an empty file
Fscanf(content) ==
    IF Len(content.nums) = 0
    THEN (IF content.text THEN 0 ELSE -1)
    ELSE IF Len(content.nums) < BPFTUNE_MAX_VALUES THEN Len(content.nums)
    ELSE BPFTUNE_MAX_VALUES

\* the caller's buffer after fscanf: converted values stored, the rest kept
ScanInto(buf, content) ==
    [i \in 1..BPFTUNE_MAX_VALUES |->
        IF i <= Len(content.nums) THEN content.nums[i] ELSE buf[i]]

\* fprintf of n values to the file of a numeric vector: the kernel stores
\* the leading values it is given and keeps the others; a file that shows
\* no numbers (a trigger file) keeps showing none
KStore(content, n, values) ==
    IF Len(content.nums) = 0 THEN content
    ELSE [content EXCEPT !.nums =
            [i \in 1..Len(content.nums) |->
                IF i <= n THEN values[i] ELSE content.nums[i]]]

KWrite(fs, path, ns, n, values) ==
    LET key == IF fs[path].pernet THEN ns ELSE GlobalNs
    IN  [fs EXCEPT ![path].val[key] = KStore(fs[path].val[key], n, values)]

(***************************************************************************)
(* bpftune_netns_set(new_fd, orig_fd).  ns is the thread's namespace,      *)
(* want_orig says orig_fd is non-NULL, open_ok whether the open of         *)
(* /proc/self/ns/net succeeds.  ev lists the open, setns and close calls   *)
(* made, in order.                                                         *)
(***************************************************************************)
bpftune_netns_set(ns, new_fd, want_orig, open_ok) ==
    IF new_fd = 0
    THEN [err |-> 0, orig |-> 0, ns |-> ns, ev |-> <<>>]
    ELSE IF ~open_ok
    THEN \* fd < 0: err = -errno, then close(fd) in the final else
         [err |-> -EMFILE, orig |-> 0, ns |-> ns, ev |-> << <<"close", -1>> >>]
    ELSE LET fd == SelfFd(ns) IN
         IF ~IsNsFd(new_fd)
         THEN \* setns fails: close(fd), then close(fd) again in the final else
              [err |-> -EBADF, orig |-> 0, ns |-> ns,
               ev |-> << <<"open", fd>>, <<"setns", new_fd>>,
                         <<"close", fd>>, <<"close", fd>> >>]
         ELSE IF want_orig
         THEN [err |-> 0, orig |-> fd, ns |-> FdNs(new_fd),
               ev |-> << <<"open", fd>>, <<"setns", new_fd>> >>]
         ELSE [err |-> 0, orig |-> 0, ns |-> FdNs(new_fd),
               ev |-> << <<"open", fd>>, <<"setns", new_fd>>, <<"close", fd>> >>]

(***************************************************************************)
(* bpftune_sysctl_read(netns_fd, name, values).  buf is the caller's       *)
(* values array before the call; env.sopen and env.ropen say whether the   *)
(* opens of /proc/self/ns/net of the switch and of the restore succeed.    *)
(***************************************************************************)
bpftune_sysctl_read(ns, fs, netns_fd, name, buf, env) ==
    LET path == bpftune_sysctl_name_to_path(name)
        sw == bpftune_netns_set(ns, netns_fd, TRUE, env.sopen)
        operr == Fopen(fs, path, "r")
        content == KContent(fs, path, sw.ns)
        num_values == IF operr # 0 THEN 0 ELSE Fscanf(content)
        \* err: -errno of fopen, -ENOENT when nothing converts, -errno on EOF
        failed == operr # 0 \/ num_values <= 0
        rs == bpftune_netns_set(sw.ns, sw.orig, FALSE, env.ropen)
    IN  IF sw.err < 0
        THEN [ret |-> sw.err, failed |-> TRUE, values |-> buf, ns |-> sw.ns,
              ev |-> sw.ev, switched |-> FALSE]
        ELSE \* out: restore, then return num_values whatever err is
             [ret |-> num_values, failed |-> failed,
              values |-> IF operr = 0 THEN ScanInto(buf, content) ELSE buf,
              ns |-> rs.ns, ev |-> sw.ev \o rs.ev, switched |-> netns_fd # 0]

\* old_values[] of bpftune_sysctl_write before the pre-read fills it
Garbage == [i \in 1..BPFTUNE_MAX_VALUES |-> -1]

ValuesMatchNever(num_values, values, old_num_values, old_values) == FALSE

\* the requested values are the ones just read: same count, same contents
ValuesMatch(num_values, values, old_num_values, old_values) ==
    /\ num_values = old_num_values
    /\ \A i \in 1..num_values : old_values[i] = values[i]

(***************************************************************************)
(* bpftune_sysctl_write(netns_fd, name, num_values, values).               *)
(* wopen counts the fopen(path, "w") calls, wrote says the values reached  *)
(* the kernel, failed names the step that failed.                          *)
(***************************************************************************)
bpftune_sysctl_write(ns, fs, netns_fd, name, num_values, values, env) ==
    LET path == bpftune_sysctl_name_to_path(name)
        sw == bpftune_netns_set(ns, netns_fd, TRUE, env.sopen)
        \* the pre-read runs with descriptor 0, in the namespace switched to
        rd == bpftune_sysctl_read(sw.ns, fs, 0, name, Garbage, env)
        operr == Fopen(fs, path, "w")
        rs == bpftune_netns_set(sw.ns, sw.orig, FALSE, env.ropen)
        base == [ret |-> 0, ns |-> rs.ns, fs |-> fs, wopen |-> 0,
                 wrote |-> FALSE, skipped |-> FALSE, failed |-> "none",
                 rdfailed |-> rd.failed,
                 ev |-> sw.ev \o rd.ev \o rs.ev, switched |-> netns_fd # 0]
    IN  IF sw.err < 0
        THEN \* return err
             [base EXCEPT !.ret = sw.err, !.ns = sw.ns, !.ev = sw.ev,
                          !.failed = "switch", !.rdfailed = FALSE,
                          !.switched = FALSE]
        ELSE IF rd.ret < 0
        THEN \* err = old_num_values; goto out; return 0
             [base EXCEPT !.failed = "preread"]
        ELSE IF ValuesMatch(num_values, values, rd.ret, rd.values)
        THEN \* return 0 from inside the switch: no restore
             [base EXCEPT !.ns = rd.ns, !.skipped = TRUE,
                          !.ev = sw.ev \o rd.ev]
        ELSE IF operr # 0
        THEN \* err = -errno; goto out; return 0
             [base EXCEPT !.wopen = 1, !.failed = "wopen"]
        ELSE [base EXCEPT !.wopen = 1, !.wrote = TRUE,
                          !.fs = KWrite(fs, path, sw.ns, num_values, values)]

(***************************************************************************)
(* Namespace cookies and processes.                                        *)
(***************************************************************************)
\* the cookie the kernel gave namespace n
CookieOf(n) == 100 + n
Pids == 1..(NumNs + 1)
SelfPid == CHOOSE p \in Pids : \A q \in Pids : p <= q

\* open("/proc/<pid>/ns/net"): the namespace of the process, 0 when the
\* open fails; the library's own link follows the calling thread
ProcNs(ns, pr, pid) ==
    IF pid = SelfPid THEN ns
    ELSE IF pid \in DOMAIN pr THEN pr[pid]
    ELSE 0

\* bpftune_netns_fd(netns_pid)
bpftune_netns_fd(ns, pr, pid) ==
    IF pid = 0 THEN 0
    ELSE IF ProcNs(ns, pr, pid) = 0 THEN -ENOENT
    ELSE NsFd(ProcNs(ns, pr, pid))

(***************************************************************************)
(* bpftune_netns_info(pid, fd, cookie).  has_fd says fd is non-NULL and    *)
(* fdval is *fd on entry; q is what the socket and the cookie query        *)
(* answer: "ok", "nosock" (socket() fails), "nocookie" (getsockopt fails). *)
(***************************************************************************)
bpftune_netns_info(ns, pr, pid, has_fd, fdval, q, env) ==
    LET fdnew == ~(pid = 0 /\ has_fd /\ fdval > 0)
        netns_fd == IF fdnew THEN bpftune_netns_fd(ns, pr, pid) ELSE fdval
        opened == IF fdnew THEN << <<"open", netns_fd>> >> ELSE <<>>
        sw == bpftune_netns_set(ns, netns_fd, TRUE, env.sopen)
        ret == IF sw.err # 0 THEN sw.err
               ELSE IF q = "nosock" THEN -EMFILE
               ELSE IF q = "nocookie" THEN -EINVAL
               ELSE 0
        rs == bpftune_netns_set(sw.ns, sw.orig, FALSE, env.ropen)
        closes == (IF fdnew /\ ~has_fd THEN << <<"close", netns_fd>> >> ELSE <<>>)
                  \o (IF sw.orig > 0 THEN << <<"close", sw.orig>> >> ELSE <<>>)
    IN  IF fdnew /\ netns_fd <= 0
        THEN [ret |-> netns_fd, fd |-> fdval, cookie |-> 0, ns |-> ns,
              ev |-> <<>>]
        ELSE IF sw.err # 0
        THEN [ret |-> ret, fd |-> fdval, cookie |-> 0, ns |-> sw.ns,
              ev |-> opened \o sw.ev \o closes]
        ELSE [ret |-> ret,
              fd |-> IF ret = 0 /\ fdnew /\ has_fd THEN netns_fd ELSE fdval,
              cookie |-> IF ret = 0 THEN CookieOf(sw.ns) ELSE 0,
              ns |-> rs.ns,
              ev |-> opened \o sw.ev \o rs.ev \o closes]

(***************************************************************************)
(* The tunable store.  A module declares its tunables by descriptors; the  *)
(* model knows the modules by the descriptors they pass.                   *)
(***************************************************************************)
NULL == [null |-> TRUE]
\* the scenarios every module declares
Scenarios == {0, 1}

DescN == [name |-> NameN, num_values |-> 1, namespaced |-> TRUE,
          type |-> "BPFTUNABLE_SYSCTL"]
DescG == [name |-> NameG, num_values |-> 2, namespaced |-> FALSE,
          type |-> "BPFTUNABLE_SYSCTL"]
ModuleKinds == {"n", "g"}
\* module "ng" declares both tunables
ModuleDescs(kind) ==
    IF kind = "n" THEN <<DescN>>
    ELSE IF kind = "g" THEN <<DescG>>
    ELSE <<DescN, DescG>>

Zeros(n) == [i \in 1..n |-> 0]
ZeroStats == [global_ns |-> [s \in Scenarios |-> 0],
              nonglobal_ns |-> [s \in Scenarios |-> 0]]

\* one turn of the loop of bpftuner_tunables_init: ret is 0, or the error
\* the function returns with
TunableInit(ns, fs, desc) ==
    LET calloced == [desc |-> desc,
                     initial_values |-> Zeros(BPFTUNE_MAX_VALUES),
                     current_values |-> Zeros(BPFTUNE_MAX_VALUES),
                     stats |-> ZeroStats]
        r == bpftune_sysctl_read(ns, fs, 0, desc.name,
                                 Zeros(BPFTUNE_MAX_VALUES),
                                 [sopen |-> TRUE, ropen |-> TRUE])
    IN  IF desc.type # "BPFTUNABLE_SYSCTL" THEN [ret |-> 0, t |-> calloced]
        ELSE IF r.ret < 0
        THEN [ret |-> r.ret, t |-> [calloced EXCEPT !.current_values = r.values]]
        ELSE IF r.ret # desc.num_values
        THEN [ret |-> -EINVAL, t |-> [calloced EXCEPT !.current_values = r.values]]
        ELSE [ret |-> 0, t |-> [calloced EXCEPT !.current_values = r.values,
                                                !.initial_values = r.values]]

\* bpftuner_tunables_init(tuner, num_descs, descs, num_scenarios, scenarios)
RECURSIVE bpftuner_tunables_init(_, _, _)
bpftuner_tunables_init(ns, fs, descs) ==
    IF descs = <<>> THEN [ret |-> 0, tunables |-> <<>>]
    ELSE LET one == TunableInit(ns, fs, Head(descs))
             more == bpftuner_tunables_init(ns, fs, Tail(descs))
         IN  IF one.ret # 0
             THEN [ret |-> one.ret, tunables |-> <<one.t>>]
             ELSE [ret |-> more.ret, tunables |-> <<one.t>> \o more.tunables]

\* bpftuner_tunable(tuner, index): indices count from 0
bpftuner_tunable(tuner, index) ==
    IF index < Len(tuner.tunables) THEN tuner.tunables[index + 1] ELSE NULL

StatsUpdateSwapped(t, scenario, global_ns) ==
    IF global_ns
    THEN [t EXCEPT !.stats.nonglobal_ns[scenario] = @ + 1]
    ELSE [t EXCEPT !.stats.global_ns[scenario] = @ + 1]

bpftuner_tunable_stats_update(t, scenario, global_ns) ==
    IF global_ns
    THEN [t EXCEPT !.stats.global_ns[scenario] = @ + 1]
    ELSE [t EXCEPT !.stats.nonglobal_ns[scenario] = @ + 1]

\* bpftuner_scenario_log(tuner, tunable, scenario, netns_fd, summary, ...):
\* the tunable afterwards (a summary changes nothing)
bpftuner_scenario_log(t, scenario, netns_fd, summary) ==
    IF summary THEN t
    ELSE bpftuner_tunable_stats_update(t, scenario, netns_fd = 0)

TunableFdAlways(t, netns_fd) == netns_fd

\* fd = t->desc.namespaced ? netns_fd : 0
TunableFd(t, netns_fd) == IF t.desc.namespaced THEN netns_fd ELSE 0

\* current_values[i] = values[i] for i < desc.num_values
StoreCurrent(t, values) ==
    [t EXCEPT !.current_values =
        [i \in 1..BPFTUNE_MAX_VALUES |->
            IF i <= t.desc.num_values THEN values[i] ELSE @[i]]]

(***************************************************************************)
(* bpftuner_tunable_sysctl_write(tuner, tunable, scenario, netns_fd,       *)
(* num_values, values, ...).  values is the caller's array of              *)
(* BPFTUNE_MAX_VALUES numbers.                                             *)
(***************************************************************************)
bpftuner_tunable_sysctl_write(ns, fs, tuner, tunable, scenario, netns_fd, num_values, values, env) ==
    LET t == bpftuner_tunable(tuner, tunable)
        fd == TunableFd(t, netns_fd)
        w == bpftune_sysctl_write(ns, fs, fd, t.desc.name, num_values,
                                  values, env)
        logged == bpftuner_scenario_log(t, scenario, netns_fd, FALSE)
    IN  IF t = NULL
        THEN [ret |-> -EINVAL, ns |-> ns, fs |-> fs, tuner |-> tuner,
              fd |-> 0, w |-> NULL]
        ELSE IF w.ret = 0
        THEN [ret |-> 0, ns |-> w.ns, fs |-> w.fs,
              tuner |-> [tuner EXCEPT !.tunables[tunable + 1] =
                                          StoreCurrent(logged, values)],
              fd |-> fd, w |-> w]
        ELSE [ret |-> w.ret, ns |-> w.ns, fs |-> w.fs, tuner |-> tuner,
              fd |-> fd, w |-> w]

\* bpftuner_tunable_update(tuner, tunable, scenario, netns_fd, ...)
bpftuner_tunable_update(tuner, tunable, scenario, netns_fd) ==
    LET t == bpftuner_tunable(tuner, tunable)
    IN  IF t = NULL THEN [ret |-> -EINVAL, tuner |-> tuner]
        ELSE [ret |-> 0,
              tuner |-> [tuner EXCEPT !.tunables[tunable + 1] =
                            bpftuner_scenario_log(t, scenario, netns_fd, FALSE)]]

(***************************************************************************)
(* The tuner registry.                                                     *)
(***************************************************************************)
TableIndex == 0..(BPFTUNE_MAX_TUNERS - 1)
\* the ids the model hands out, the loads past a full table included
TunerIds == 0..(BPFTUNE_MAX_TUNERS + MaxOverflow - 1)

\* what bpftune_tuners[index] reads: a slot of the table, or what lies
\* past its end
Slot(tab, beyond, index) ==
    IF index \in TableIndex THEN tab[index]
    ELSE IF index - BPFTUNE_MAX_TUNERS < Len(beyond)
    THEN beyond[index - BPFTUNE_MAX_TUNERS + 1]
    ELSE NULL

bpftune_tuner_unchecked(tab, beyond, num, index) ==
    [tuner |-> Slot(tab, beyond, index), slots |-> {index}]

\* bpftune_tuner(index): the tuner, and the slots of the table it read
bpftune_tuner(tab, beyond, num, index) ==
    IF index < num
    THEN [tuner |-> Slot(tab, beyond, index), slots |-> {index}]
    ELSE [tuner |-> NULL, slots |-> {}]

\* bpftune_ringbuf_event_read(ctx, data, size): the callback of the ring
\* buffer.  handler is the id of the tuner whose event_handler ran, or -1
bpftune_ringbuf_event_read(tab, beyond, num, size_ok, tuner_id) ==
    LET l == bpftune_tuner(tab, beyond, num, tuner_id)
    IN  IF ~size_ok
        THEN [ret |-> 0, handler |-> -1, slots |-> {}]
        ELSE IF tuner_id > BPFTUNE_MAX_TUNERS
        THEN [ret |-> 0, handler |-> -1, slots |-> {}]
        ELSE IF l.tuner = NULL
        THEN [ret |-> 0, handler |-> -1, slots |-> l.slots]
        ELSE IF ~l.tuner.event_handler
        THEN \* tuner->event_handler is NULL: the call crashes
             [ret |-> 0, handler |-> -1, slots |-> l.slots]
        ELSE [ret |-> 0, handler |-> l.tuner.id, slots |-> l.slots]

(***************************************************************************)
(* The namespaces a tuner knows.  tuner.netns lists the cookies of the     *)
(* nodes linked behind the head tuner->netns, whose own cookie is 0.       *)
(***************************************************************************)
\* bpftune_for_each_tuner(t): bpftune_tuner(0), bpftune_tuner(1), ... up to
\* the first NULL
RECURSIVE TunersFrom(_, _, _, _)
TunersFrom(tab, beyond, num, i) ==
    LET t == bpftune_tuner(tab, beyond, num, i).tuner
    IN  IF t = NULL THEN <<>>
        ELSE <<t>> \o TunersFrom(tab, beyond, num, i + 1)

bpftune_for_each_tuner(tab, beyond, num) == TunersFrom(tab, beyond, num, 0)

\* bpftuner_for_each_netns(tuner, netns): the cookies met from the head on
bpftuner_for_each_netns(tuner) == <<0>> \o tuner.netns

Least(S) == CHOOSE x \in S : \A y \in S : x <= y

\* bpftuner_netns_from_cookie(tuner_id, cookie): NULL, or the node found,
\* named by its tuner and its place in the list (0 is the head)
bpftuner_netns_from_cookie(supported, tab, beyond, num, tuner_id, cookie) ==
    LET ts == bpftune_for_each_tuner(tab, beyond, num)
        Places(t) == {j \in 1..Len(bpftuner_for_each_netns(t)) :
                         bpftuner_for_each_netns(t)[j] = cookie}
        hits == {k \in 1..Len(ts) :
                    ts[k].id = tuner_id /\ (cookie = 0 \/ Places(ts[k]) # {})}
    IN  IF ~supported THEN NULL
        ELSE IF hits = {} THEN NULL
        ELSE [tuner |-> ts[Least(hits)].id,
              place |-> IF cookie = 0 THEN 0
                        ELSE Least(Places(ts[Least(hits)])) - 1]

\* bpftuner_netns_init(tuner, cookie): the tuner afterwards
bpftuner_netns_init(supported, tab, beyond, num, tuner, cookie, calloc_ok) ==
    IF bpftuner_netns_from_cookie(supported, tab, beyond, num, tuner.id,
                                  cookie) # NULL
    THEN tuner
    ELSE IF ~calloc_ok THEN tuner
    ELSE [tuner EXCEPT !.netns = Append(@, cookie)]

\* bpftuner_netns_fini(tuner, cookie): the tuner afterwards; a match on the
\* head (cookie 0) unlinks nothing
bpftuner_netns_fini(supported, tuner, cookie) ==
    LET at == {j \in 1..Len(tuner.netns) : tuner.netns[j] = cookie}
    IN  IF ~supported THEN tuner
        ELSE IF cookie = 0 THEN tuner
        ELSE IF at = {} THEN tuner
        ELSE [tuner EXCEPT !.netns =
                [j \in 1..(Len(@) - 1) |->
                    IF j < Least(at) THEN @[j] ELSE @[j + 1]]]

\* bpftune_for_each_tuner(t) bpftuner_netns_init(t, cookie): the table and
\* what lies behind it afterwards
NetnsInitEach(supported, tab, beyond, num, cookie) ==
    [tab |-> [i \in TableIndex |->
                 IF i < num
                 THEN bpftuner_netns_init(supported, tab, beyond, num,
                                          tab[i], cookie, TRUE)
                 ELSE tab[i]],
     beyond |-> [k \in 1..Len(beyond) |->
                 IF BPFTUNE_MAX_TUNERS + k - 1 < num
                 THEN bpftuner_netns_init(supported, tab, beyond, num,
                                          beyond[k], cookie, TRUE)
                 ELSE beyond[k]]]

(***************************************************************************)
(* bpftune_netns_find(cookie).  An entry of /proc/mounts is its type and,  *)
(* for nsfs, the network namespace it pins (0: a namespace of another      *)
(* kind, which setns(fd, CLONE_NEWNET) refuses).  g holds what the sweep   *)
(* reads and does not change: supported, procs, num, q.  st is the state   *)
(* the sweep carries: ret, tab, beyond, ns, and done once it has returned. *)
(***************************************************************************)
MountFd(ent) == IF ent.ns = 0 THEN BadFd ELSE NsFd(ent.ns)

\* the numeric entries of /proc in the order readdir yields them
RECURSIVE PidDirsFrom(_, _)
PidDirsFrom(pr, p) ==
    IF \A q \in DOMAIN pr : q < p THEN <<>>
    ELSE IF p \in DOMAIN pr THEN <<p>> \o PidDirsFrom(pr, p + 1)
    ELSE PidDirsFrom(pr, p + 1)
PidDirs(pr) == PidDirsFrom(pr, 1)

\* one nsfs entry: info is what bpftune_netns_info(0, &mntfd, &netns_cookie)
\* answered
RECURSIVE FindMounts(_, _, _, _)
FindMountsStep(g, st, ments, cookie, mntfd, info) ==
    LET each == NetnsInitEach(g.supported, st.tab, st.beyond, g.num,
                              info.cookie)
    IN  IF info.ret # 0
        THEN \* close(mntfd); continue
             FindMounts(g, [st EXCEPT !.ns = info.ns,
                                      !.ev = @ \o << <<"open", mntfd>> >>
                                               \o info.ev
                                               \o << <<"close", mntfd>> >>],
                        Tail(ments), cookie)
        ELSE IF cookie = 0
        THEN FindMounts(g, [st EXCEPT !.ns = info.ns, !.ret = 0,
                                      !.tab = each.tab,
                                      !.beyond = each.beyond,
                                      !.ev = @ \o << <<"open", mntfd>> >>
                                               \o info.ev
                                               \o << <<"close", mntfd>> >>],
                        Tail(ments), cookie)
        ELSE [st EXCEPT !.ns = info.ns, !.ret = mntfd, !.done = TRUE,
                        !.ev = @ \o << <<"open", mntfd>> >> \o info.ev]

\* while ((ent = getmntent(mounts)) != NULL)
FindMounts(g, st, ments, cookie) ==
    IF ments = <<>> THEN st
    ELSE IF Head(ments).type # "nsfs"
    THEN FindMounts(g, st, Tail(ments), cookie)
    ELSE CHOOSE r \in
            {FindMountsStep(g, s, ments, cookie, MountFd(Head(ments)), info) :
                s \in {st},
                info \in {bpftune_netns_info(st.ns, g.procs, 0, TRUE,
                                             MountFd(Head(ments)), g.q,
                                             [sopen |-> TRUE, ropen |-> TRUE])}} :
            TRUE

\* one numeric entry of /proc: info is what
\* bpftune_netns_info(pid, &netns_fd, &netns_cookie) answered
RECURSIVE FindPids(_, _, _, _)
FindPidsStep(g, st, pids, cookie, info) ==
    LET each == NetnsInitEach(g.supported, st.tab, st.beyond, g.num,
                              info.cookie)
    IN  IF info.ret # 0
        THEN \* continue: netns_fd is not looked at again
             FindPids(g, [st EXCEPT !.ns = info.ns, !.ev = @ \o info.ev],
                      Tail(pids), cookie)
        ELSE IF cookie = 0
        THEN FindPids(g, [st EXCEPT !.ns = info.ns, !.tab = each.tab,
                                    !.beyond = each.beyond,
                                    !.ev = @ \o info.ev
                                             \o << <<"close", info.fd>> >>],
                      Tail(pids), cookie)
        ELSE IF info.cookie = cookie
        THEN [st EXCEPT !.ns = info.ns, !.ret = info.fd, !.done = TRUE,
                        !.ev = @ \o info.ev]
        ELSE FindPids(g, [st EXCEPT !.ns = info.ns,
                                    !.ev = @ \o info.ev
                                             \o << <<"close", info.fd>> >>],
                      Tail(pids), cookie)

\* while ((dirent = readdir(dir)) != NULL)
FindPids(g, st, pids, cookie) ==
    IF pids = <<>> THEN st
    ELSE CHOOSE r \in
            {FindPidsStep(g, s, pids, cookie, info) :
                s \in {st},
                info \in {bpftune_netns_info(st.ns, g.procs, Head(pids), TRUE,
                                             0, g.q,
                                             [sopen |-> TRUE, ropen |-> TRUE])}} :
            TRUE

FindNothingOnZero(supported, global, cookie) == ~supported \/ cookie = 0

\* if (!netns_cookie_supported || cookie == 0 ||
\*     (global_netns_cookie && cookie == global_netns_cookie)) return 0;
FindNothing(supported, global, cookie) ==
    ~supported \/ cookie = 0 \/ (global # 0 /\ cookie = global)

\* ev lists the descriptors the call opened and closed, in order
bpftune_netns_find(g, global, ns, tab, beyond, ments, cookie) ==
    LET st0 == [ret |-> -ENOENT, tab |-> tab, beyond |-> beyond, ns |-> ns,
                done |-> FALSE, ev |-> <<>>]
    IN  IF FindNothing(g.supported, global, cookie)
        THEN [st0 EXCEPT !.ret = 0, !.done = TRUE]
        ELSE CHOOSE r \in
                {IF m.done THEN m ELSE FindPids(g, m, PidDirs(g.procs), cookie) :
                    m \in {FindMounts(g, st0, ments, cookie)}} : TRUE

\* bpftune_netns_cookie_supported(): q is what socket() and getsockopt()
\* answer
bpftune_netns_cookie_supported(q) == q = "ok"

(***************************************************************************)
(* Initial state: nothing loaded, the thread in the global namespace.      *)
(***************************************************************************)
ValSeqs(n) == [1..n -> Vals]
Buffers == ValSeqs(BPFTUNE_MAX_VALUES)
\* the arrays a caller passes for a setting of at most two values
Buffers2 == {b \in Buffers : b[BPFTUNE_MAX_VALUES] = 0}
\* at most one of the two opens of /proc/self/ns/net fails in a call
Envs == {e \in [sopen : BOOLEAN, ropen : BOOLEAN] : e.sopen \/ e.ropen}
EnvOk == [sopen |-> TRUE, ropen |-> TRUE]
Queries == {"ok", "nosock", "nocookie"}

InitSysctl ==
    bpftune_sysctl_name_to_path(NameN) :>
        [mode |-> {"r", "w"}, pernet |-> TRUE,
         val |-> [n \in Namespaces |-> Nums(Zeros(1))]]
    @@ bpftune_sysctl_name_to_path(NameG) :>
        [mode |-> {"r", "w"}, pernet |-> FALSE,
         val |-> [n \in Namespaces |-> Nums(Zeros(2))]]
    @@ bpftune_sysctl_name_to_path(NameW) :>
        [mode |-> {"w"}, pernet |-> FALSE,
         val |-> [n \in Namespaces |-> Nums(<<>>)]]
    @@ bpftune_sysctl_name_to_path(NameT) :>
        [mode |-> {"r"}, pernet |-> FALSE,
         val |-> [n \in Namespaces |-> Text]]
    @@ bpftune_sysctl_name_to_path(NameE) :>
        [mode |-> {"r", "w"}, pernet |-> FALSE,
         val |-> [n \in Namespaces |-> Nums(<<>>)]]

\* process p lives in namespace p; process 1 is the daemon
InitProcs == [p \in 1..NumNs |-> p]

NoCall == [op |-> "none"]

InitWith(m, k) ==
    /\ curns = GlobalNs
    /\ sysctl = InitSysctl
    /\ procs = InitProcs
    /\ mounts = m
    /\ kernel_cookie = k
    /\ bpftune_tuners = [i \in TableIndex |-> NULL]
    /\ bpftune_num_tuners = 0
    /\ oob = <<>>
    /\ netns_cookie_supported = FALSE
    /\ global_netns_cookie = 0
    /\ ring_buffer_done = FALSE
    /\ pollpc = "idle"
    /\ rb_freed = 0
    /\ ring_buffer_map_fd = 0
    /\ corr_map_fd = 0
    /\ open_fds = {}
    /\ fini_calls = <<>>
    /\ summaries = <<>>
    /\ last = NoCall

Init == InitWith(<<>>, TRUE)

(***************************************************************************)
(* The sysctl transaction layer and bpftune_netns_info called directly.    *)
(***************************************************************************)
SysctlReadCall(fd, name, env) ==
    \E r \in {bpftune_sysctl_read(curns, sysctl, fd, name,
                                  Zeros(BPFTUNE_MAX_VALUES), env)} :
        /\ curns' = r.ns
        /\ last' = [op |-> "sysctl_read", fd |-> fd, name |-> name,
                    ns0 |-> curns, ret |-> r.ret, failed |-> r.failed,
                    values |-> r.values, ev |-> r.ev, renv |-> env.ropen]
        /\ UNCHANGED <<sysctl, envvars, bpfvars, logvars, regvars, nsvars, rbvars>>

\* the call repeats the one before: same descriptor, name and values, and
\* nothing happened in between
Repeats(fd, name, num_values, values) ==
    /\ last.op = "sysctl_write"
    /\ last.fd = fd
    /\ last.name = name
    /\ last.num_values = num_values
    /\ last.values = values

SysctlWriteCall(fd, name, num_values, values, env) ==
    \E w \in {bpftune_sysctl_write(curns, sysctl, fd, name, num_values,
                                   values, env)},
       rep \in {Repeats(fd, name, num_values, values)} :
        /\ curns' = w.ns
        /\ sysctl' = w.fs
        /\ last' = [op |-> "sysctl_write", fd |-> fd, name |-> name,
                    num_values |-> num_values, values |-> values,
                    ns0 |-> curns, ret |-> w.ret, wopen |-> w.wopen,
                    wrote |-> w.wrote, skipped |-> w.skipped,
                    failed |-> w.failed, ev |-> w.ev, renv |-> env.ropen,
                    rep |-> rep,
                    pwopen |-> IF rep THEN last.wopen ELSE 0,
                    pwrote |-> IF rep THEN last.wrote ELSE FALSE]
        /\ UNCHANGED <<envvars, bpfvars, logvars, regvars, nsvars, rbvars>>

InfoArgs ==
    {[pid |-> 0, has_fd |-> TRUE, fdval |-> fd] : fd \in CallerFds}
    \cup {[pid |-> p, has_fd |-> h, fdval |-> 0] : p \in Pids, h \in BOOLEAN}

NetnsInfoCall(a, q, env) ==
    \E r \in {bpftune_netns_info(curns, procs, a.pid, a.has_fd, a.fdval,
                                 q, env)} :
        /\ curns' = r.ns
        /\ last' = [op |-> "netns_info", pid |-> a.pid, has_fd |-> a.has_fd,
                    fdval |-> a.fdval, q |-> q, ns0 |-> curns,
                    ret |-> r.ret, fd |-> r.fd, cookie |-> r.cookie,
                    ev |-> r.ev, renv |-> env.ropen]
        /\ UNCHANGED <<sysctl, envvars, bpfvars, logvars, regvars, nsvars, rbvars>>

\* another process writes a setting
ExternalWrite(name, ns, values) ==
    /\ sysctl' = KWrite(sysctl, bpftune_sysctl_name_to_path(name), ns,
                        BPFTUNE_MAX_VALUES, values)
    /\ sysctl' # sysctl
    /\ last' = [op |-> "external"]
    /\ UNCHANGED <<curns, envvars, bpfvars, logvars, regvars, nsvars, rbvars>>

\* /proc/sys is remounted or its permissions change
ExternalMode(mode) ==
    /\ sysctl' = [p \in DOMAIN sysctl |->
                    IF p \in {bpftune_sysctl_name_to_path(NameN),
                              bpftune_sysctl_name_to_path(NameG)}
                    THEN [sysctl[p] EXCEPT !.mode = mode] ELSE sysctl[p]]
    /\ sysctl' # sysctl
    /\ last' = [op |-> "external"]
    /\ UNCHANGED <<curns, envvars, bpfvars, logvars, regvars, nsvars, rbvars>>

(***************************************************************************)
(* The BPF side of a module.  Each skeleton has a ring_buffer_map and a    *)
(* corr_map; libbpf gives each map of each skeleton a descriptor of its    *)
(* own: bpf_map__reuse_fd duplicates the descriptor it is handed, and      *)
(* bpf_object__load_skeleton creates the maps that reuse nothing.          *)
(* bpf_object__destroy_skeleton closes the descriptors of the skeleton's   *)
(* maps.  num names the skeleton: the number of tuners registered when it  *)
(* is loaded.                                                              *)
(***************************************************************************)
RingMapFd(num) == 30 + 2 * num
CorrMapFd(num) == 31 + 2 * num

\* __bpftuner_bpf_load(tuner, optionals) and __bpftuner_bpf_attach(tuner),
\* as a module's init calls them: the shared descriptors afterwards and
\* what the tuner holds
bpftuner_bpf_load(num, rbfd, cmfd) ==
    LET rb == IF rbfd > 0 THEN rbfd ELSE RingMapFd(num)
        cm == IF cmfd > 0 THEN cmfd ELSE CorrMapFd(num)
    IN  [ring_buffer_map_fd |-> rb,
         corr_map_fd |-> cm,
         tuner_ring_buffer_map_fd |-> RingMapFd(num),
         tuner_corr_map_fd |-> cm,
         maps |-> {RingMapFd(num), CorrMapFd(num)}]

\* if (bpftune_num_tuners == 0): the shared descriptors are released
SharedRelease(num) == num = 0

\* bpftuner_bpf_fini(tuner): the shared descriptors and the open ones
\* afterwards
bpftuner_bpf_fini(tuner, num, rbfd, cmfd, fds) ==
    LET left == fds \ tuner.maps
    IN  IF SharedRelease(num)
        THEN [ring_buffer_map_fd |-> 0, corr_map_fd |-> 0,
              open_fds |-> left \ {rbfd, cmfd},
              closes |-> {fd \in {rbfd, cmfd} : fd > 0}]
        ELSE [ring_buffer_map_fd |-> rbfd, corr_map_fd |-> cmfd,
              open_fds |-> left, closes |-> {}]

(***************************************************************************)
(* bpftuner_init(path).  kind is the module at path; dl is what dlopen and *)
(* dlsym find of it: "ok", "nodlopen" (dlopen fails), or the entry point   *)
(* it lacks ("noinit", "nofini", "nohandler": dlsym returns NULL, which    *)
(* bpftuner_init does not test).  The module's init loads and attaches its *)
(* BPF skeleton and declares its tunables; modinit "fail" makes it return  *)
(* an error before either.  A call through a NULL init is a crash.  A      *)
(* store past the end of the table is undefined: it lands in the memory    *)
(* behind the table, and with clobber it overwrites the object that lies   *)
(* there.                                                                  *)
(***************************************************************************)
GarbageCookie == CookieOf(0)
Modules == {"ok", "nodlopen", "noinit", "nofini", "nohandler"}

bpftuner_init(ns, fs, num, kind, dl, modinit, rbfd, cmfd) ==
    LET ti == bpftuner_tunables_init(ns, fs, ModuleDescs(kind))
        bpf == bpftuner_bpf_load(num, rbfd, cmfd)
        err == IF modinit # "ok" THEN -EINVAL ELSE ti.ret
        none == [ret |-> "NULL", tuner |-> NULL, id_at_init |-> -1,
                 init_called |-> FALSE,
                 ring_buffer_map_fd |-> rbfd, corr_map_fd |-> cmfd,
                 opened |-> {}]
    IN  IF dl = "nodlopen" THEN none
        ELSE IF dl = "noinit" THEN [none EXCEPT !.ret = "CRASH"]
        ELSE IF modinit # "ok"
        THEN [none EXCEPT !.id_at_init = 0, !.init_called = TRUE]
        ELSE IF err # 0
        THEN [none EXCEPT !.id_at_init = 0, !.init_called = TRUE,
                          !.ring_buffer_map_fd = bpf.ring_buffer_map_fd,
                          !.corr_map_fd = bpf.corr_map_fd,
                          !.opened = bpf.maps]
        ELSE [ret |-> "tuner",
              \* tuner->id is still the 0 of calloc when init runs
              id_at_init |-> 0,
              init_called |-> TRUE,
              ring_buffer_map_fd |-> bpf.ring_buffer_map_fd,
              corr_map_fd |-> bpf.corr_map_fd,
              opened |-> bpf.maps,
              tuner |-> [id |-> num, state |-> "BPFTUNE_ACTIVE",
                         kind |-> kind, tunables |-> ti.tunables,
                         netns |-> <<>>,
                         fini |-> dl # "nofini",
                         event_handler |-> dl # "nohandler",
                         ring_buffer_map_fd |-> bpf.tuner_ring_buffer_map_fd,
                         corr_map_fd |-> bpf.tuner_corr_map_fd,
                         maps |-> bpf.maps,
                         skeleton |-> "loaded"]]

BpftunerInit(kind, dl, modinit, clobber) ==
    /\ bpftune_num_tuners < BPFTUNE_MAX_TUNERS + MaxOverflow
    /\ \E r \in {bpftuner_init(curns, sysctl, bpftune_num_tuners, kind, dl,
                               modinit, ring_buffer_map_fd, corr_map_fd)} :
        /\ IF r.ret # "tuner"
           THEN UNCHANGED <<regvars, global_netns_cookie>>
           ELSE /\ bpftune_num_tuners' = bpftune_num_tuners + 1
                /\ IF bpftune_num_tuners \in TableIndex
                   THEN /\ bpftune_tuners' =
                              [bpftune_tuners EXCEPT ![bpftune_num_tuners] = r.tuner]
                        /\ UNCHANGED <<oob, global_netns_cookie>>
                   ELSE /\ oob' = Append(oob, r.tuner)
                        /\ global_netns_cookie' =
                              IF clobber THEN GarbageCookie
                              ELSE global_netns_cookie
                        /\ UNCHANGED bpftune_tuners
        /\ ring_buffer_map_fd' = r.ring_buffer_map_fd
        /\ corr_map_fd' = r.corr_map_fd
        /\ open_fds' = open_fds \cup r.opened
        /\ last' = [op |-> "bpftuner_init", kind |-> kind, ret |-> r.ret,
                    dl |-> dl, modinit |-> modinit,
                    init_called |-> r.init_called,
                    id_at_init |-> r.id_at_init,
                    num0 |-> bpftune_num_tuners, tuners0 |-> bpftune_tuners,
                    oob0 |-> oob]
    /\ (clobber => bpftune_num_tuners >= BPFTUNE_MAX_TUNERS /\ dl = "ok"
                   /\ modinit = "ok")
    /\ UNCHANGED <<kvars, envvars, logvars, netns_cookie_supported, rbvars>>

\* the tuner the caller holds as bpftune_tuner(i), and the registry with
\* that tuner replaced
TunerAt(i) == Slot(bpftune_tuners, oob, i)
Registered == 0..(bpftune_num_tuners - 1)

(***************************************************************************)
(* bpftuner_tunable_sysctl_write called by the event handler of tuner i.   *)
(***************************************************************************)
CounterRoom(t, scenario, netns_fd) ==
    IF t = NULL THEN TRUE
    ELSE (IF netns_fd = 0 THEN t.stats.global_ns[scenario]
          ELSE t.stats.nonglobal_ns[scenario]) < MaxCount

TunableSysctlWriteCall(i, tunable, scenario, netns_fd, num_values, values, env) ==
    /\ i \in Registered /\ i \in TableIndex
    /\ CounterRoom(bpftuner_tunable(TunerAt(i), tunable), scenario, netns_fd)
    /\ \E r \in {bpftuner_tunable_sysctl_write(curns, sysctl, TunerAt(i),
                     tunable, scenario, netns_fd, num_values, values, env)} :
        /\ curns' = r.ns
        /\ sysctl' = r.fs
        /\ bpftune_tuners' = [bpftune_tuners EXCEPT ![i] = r.tuner]
        /\ last' = [op |-> "tunable_sysctl_write", tuner |-> i,
                    tunable |-> tunable, scenario |-> scenario,
                    netns_fd |-> netns_fd, num_values |-> num_values,
                    values |-> values, ns0 |-> curns, ret |-> r.ret,
                    fd |-> r.fd, w |-> r.w,
                    before |-> bpftuner_tunable(TunerAt(i), tunable),
                    tuners0 |-> bpftune_tuners]
    /\ UNCHANGED <<envvars, bpfvars, logvars, bpftune_num_tuners, oob, nsvars, rbvars>>

\* bpftuner_tunable_update called by the event handler of tuner i
TunableUpdateCall(i, tunable, scenario, netns_fd) ==
    /\ i \in Registered /\ i \in TableIndex
    /\ CounterRoom(bpftuner_tunable(TunerAt(i), tunable), scenario, netns_fd)
    /\ \E r \in {bpftuner_tunable_update(TunerAt(i), tunable, scenario,
                                         netns_fd)} :
        /\ bpftune_tuners' = [bpftune_tuners EXCEPT ![i] = r.tuner]
        /\ last' = [op |-> "tunable_update", tuner |-> i,
                    tunable |-> tunable, scenario |-> scenario,
                    netns_fd |-> netns_fd, ret |-> r.ret,
                    before |-> bpftuner_tunable(TunerAt(i), tunable),
                    tuners0 |-> bpftune_tuners]
    /\ UNCHANGED <<kvars, envvars, bpfvars, logvars, bpftune_num_tuners, oob,
                   nsvars, rbvars>>

\* the occurrences counted so far, over all tuners of the table
RECURSIVE SumSeq(_)
SumSeq(q) == IF q = <<>> THEN 0 ELSE Head(q) + SumSeq(Tail(q))
TunableCount(t) ==
    SumSeq([k \in 1..(2 * Cardinality(Scenarios)) |->
              IF k <= Cardinality(Scenarios) THEN t.stats.global_ns[k - 1]
              ELSE t.stats.nonglobal_ns[k - 1 - Cardinality(Scenarios)]])
TunerCount(tuner) ==
    IF tuner = NULL THEN 0
    ELSE SumSeq([k \in 1..Len(tuner.tunables) |-> TunableCount(tuner.tunables[k])])
TotalCount ==
    SumSeq([k \in 1..BPFTUNE_MAX_TUNERS |-> TunerCount(bpftune_tuners[k - 1])])

(***************************************************************************)
(* Teardown: bpftuner_fini(tuner, state) and bpftuner_bpf_fini(tuner).     *)
(***************************************************************************)
\* enum bpftune_state
States == {"BPFTUNE_INACTIVE", "BPFTUNE_ACTIVE"}

\* the summary branch of bpftuner_scenario_log: the lines it logs
ScenarioSummary(i, t, tunable, scenario, netns_fd) ==
    LET global_ns == netns_fd = 0
        count == IF global_ns THEN t.stats.global_ns[scenario]
                 ELSE t.stats.nonglobal_ns[scenario]
    IN  IF count = 0 THEN <<>>
        ELSE <<[tuner |-> i, tunable |-> tunable, scenario |-> scenario,
                global_ns |-> global_ns, count |-> count]>>

\* tuner->num_scenarios
NumScenarios == Cardinality(Scenarios)

\* for (i < num_tunables) for (j < num_scenarios): the k-th round of the
\* two loops is tunable k / num_scenarios, scenario k % num_scenarios
RECURSIVE FiniSummaries(_, _, _)
FiniSummaries(i, tuner, k) ==
    IF k >= Len(tuner.tunables) * NumScenarios THEN <<>>
    ELSE LET tunable == k \div NumScenarios
             scenario == k % NumScenarios
             t == bpftuner_tunable(tuner, tunable)
         IN  ScenarioSummary(i, t, tunable, scenario, 0)
               \o ScenarioSummary(i, t, tunable, scenario, 1)
               \o FiniSummaries(i, tuner, k + 1)

FiniSkipsNull(tuner) == tuner = NULL

\* if (!tuner || tuner->state != BPFTUNE_ACTIVE) return;
FiniSkips(tuner) ==
    IF tuner = NULL THEN TRUE ELSE tuner.state # "BPFTUNE_ACTIVE"

\* bpftuner_fini(tuner, state): the tuner afterwards, the lines logged and
\* whether tuner->fini ran
bpftuner_fini(i, tuner, state) ==
    IF FiniSkips(tuner)
    THEN [skipped |-> TRUE, tuner |-> tuner, lines |-> <<>>, fini |-> FALSE]
    ELSE [skipped |-> FALSE,
          tuner |-> [tuner EXCEPT !.state = state],
          lines |-> FiniSummaries(i, tuner, 0),
          fini |-> tuner.fini]

\* the tuners other than i that are registered and BPFTUNE_ACTIVE
OthersActive(tab, i) ==
    {j \in TableIndex \ {i} :
        IF tab[j] = NULL THEN FALSE ELSE tab[j].state = "BPFTUNE_ACTIVE"}

\* bpftuner_fini(bpftune_tuner(i), state)
BpftunerFini(i, state) ==
    /\ Len(fini_calls) < MaxFini
    /\ \E r \in {bpftuner_fini(i, bpftune_tuners[i], state)} :
        /\ bpftune_tuners' = [bpftune_tuners EXCEPT ![i] = r.tuner]
        /\ summaries' = summaries \o r.lines
        /\ fini_calls' =
              IF r.skipped THEN fini_calls
              ELSE Append(fini_calls,
                          [tuner |-> i, state |-> state, fini |-> r.fini])
        /\ last' = [op |-> "bpftuner_fini", tuner |-> i, state |-> state,
                    skipped |-> r.skipped, lines |-> r.lines]
    /\ UNCHANGED <<kvars, envvars, bpfvars, bpftune_num_tuners, oob, nsvars,
                   rbvars>>

\* bpftuner_bpf_fini(tuner), by the fini entry point of tuner i or after it
BpftunerBpfFini(i) ==
    /\ bpftune_tuners[i] # NULL
    /\ bpftune_tuners[i].state # "BPFTUNE_ACTIVE"
    /\ bpftune_tuners[i].skeleton = "loaded"
    /\ \E r \in {bpftuner_bpf_fini(bpftune_tuners[i], bpftune_num_tuners,
                                   ring_buffer_map_fd, corr_map_fd,
                                   open_fds)} :
        /\ ring_buffer_map_fd' = r.ring_buffer_map_fd
        /\ corr_map_fd' = r.corr_map_fd
        /\ open_fds' = r.open_fds
        /\ bpftune_tuners' =
              [bpftune_tuners EXCEPT ![i] =
                  [@ EXCEPT !.skeleton = "destroyed", !.maps = {}]]
        /\ last' = [op |-> "bpftuner_bpf_fini", tuner |-> i,
                    others_active |-> OthersActive(bpftune_tuners, i) # {},
                    num |-> bpftune_num_tuners,
                    rbfd0 |-> ring_buffer_map_fd, cmfd0 |-> corr_map_fd,
                    closed |-> open_fds \ r.open_fds]
    /\ UNCHANGED <<kvars, envvars, logvars, bpftune_num_tuners, oob, nsvars,
                   rbvars>>

(***************************************************************************)
(* The ring buffer: bpftune_ring_buffer_poll, the callback                 *)
(* bpftune_ringbuf_event_read that ring_buffer__poll calls for each        *)
(* record, and bpftune_ring_buffer_fini.                                   *)
(***************************************************************************)
PollAgainAlways(done) == TRUE

\* while (!ring_buffer_done)
PollAgain(done) == ~done

\* what bpftune_ring_buffer_poll returns after the loop, err being the last
\* result of ring_buffer__poll
PollResult(err) == 0

\* the loop test: enter ring_buffer__poll, or free the ring buffer and
\* return.  inflight says the test follows a poll during which the
\* shutdown flag was raised
PollLoop ==
    /\ pollpc \in {"idle", "top"}
    /\ pollpc' = IF PollAgain(ring_buffer_done) THEN "polling" ELSE "returned"
    /\ rb_freed' = IF PollAgain(ring_buffer_done) THEN rb_freed
                   ELSE rb_freed + 1
    /\ last' = [op |-> "poll_loop",
                returned |-> ~PollAgain(ring_buffer_done),
                ret |-> PollResult(0),
                inflight |-> last.op = "poll_return" /\ last.flagged]
    /\ UNCHANGED <<kvars, envvars, bpfvars, logvars, regvars, nsvars, ring_buffer_done>>

\* a record of the ring buffer is handed to the callback; a callback that
\* returns a negative value ends ring_buffer__poll with that value, and the
\* loop of bpftune_ring_buffer_poll breaks on it
RingbufEvent(size_ok, tuner_id) ==
    /\ pollpc = "polling"
    /\ \E r \in {bpftune_ringbuf_event_read(bpftune_tuners, oob,
                     bpftune_num_tuners, size_ok, tuner_id)} :
        /\ last' = [op |-> "event", size_ok |-> size_ok,
                    tuner_id |-> tuner_id, num0 |-> bpftune_num_tuners,
                    ret |-> r.ret, handler |-> r.handler, slots |-> r.slots,
                    flagged |-> last.op = "ring_buffer_fini"
                                \/ (last.op = "event" /\ last.flagged)]
        /\ pollpc' = IF r.ret < 0 THEN "returned" ELSE "polling"
        /\ rb_freed' = IF r.ret < 0 THEN rb_freed + 1 ELSE rb_freed
    /\ UNCHANGED <<kvars, envvars, bpfvars, logvars, regvars, nsvars, ring_buffer_done>>

\* ring_buffer__poll returns err: break when negative
PollReturn(err) ==
    /\ pollpc = "polling"
    /\ pollpc' = IF err < 0 THEN "returned" ELSE "top"
    /\ rb_freed' = IF err < 0 THEN rb_freed + 1 ELSE rb_freed
    /\ last' = [op |-> "poll_return", err |-> err, returned |-> err < 0,
                ret |-> PollResult(err),
                flagged |-> last.op = "ring_buffer_fini"
                            \/ (last.op = "event" /\ last.flagged)]
    /\ UNCHANGED <<kvars, envvars, bpfvars, logvars, regvars, nsvars, ring_buffer_done>>

RingBufferFini ==
    /\ ~ring_buffer_done
    /\ ring_buffer_done' = TRUE
    /\ last' = [op |-> "ring_buffer_fini", at |-> pollpc]
    /\ UNCHANGED <<kvars, envvars, bpfvars, logvars, regvars, nsvars, pollpc,
                   rb_freed>>

(***************************************************************************)
(* Namespace discovery and the per-tuner namespace lists.                  *)
(***************************************************************************)
Query == IF kernel_cookie THEN "ok" ELSE "nocookie"
SweepEnv(supported) ==
    [supported |-> supported, procs |-> procs, num |-> bpftune_num_tuners,
     q |-> Query]

\* bpftune_netns_init_all()
bpftune_netns_init_all(ns, global, tab, beyond, ments, q, g) ==
    LET supported == bpftune_netns_cookie_supported(q)
        info == bpftune_netns_info(ns, g.procs, SelfPid, FALSE, 0, q,
                                   [sopen |-> TRUE, ropen |-> TRUE])
        glob == IF info.ret = 0 THEN info.cookie ELSE global
        f == bpftune_netns_find([g EXCEPT !.supported = supported], glob,
                                info.ns, tab, beyond, ments, 0)
    IN  IF ~supported
        THEN [ret |-> 0, supported |-> FALSE, global |-> global, ns |-> ns,
              tab |-> tab, beyond |-> beyond, ev |-> <<>>]
        ELSE [ret |-> f.ret, supported |-> TRUE, global |-> glob,
              ns |-> f.ns, tab |-> f.tab, beyond |-> f.beyond,
              ev |-> info.ev \o f.ev]

NetnsInitAll ==
    \E r \in {bpftune_netns_init_all(curns, global_netns_cookie,
                  bpftune_tuners, oob, mounts, Query,
                  SweepEnv(netns_cookie_supported))} :
        /\ netns_cookie_supported' = r.supported
        /\ global_netns_cookie' = r.global
        /\ curns' = r.ns
        /\ bpftune_tuners' = r.tab
        /\ oob' = r.beyond
        /\ last' = [op |-> "netns_init_all", ret |-> r.ret, ev |-> r.ev]
        /\ UNCHANGED <<sysctl, envvars, bpfvars, logvars, bpftune_num_tuners, rbvars>>

\* what socket() and getsockopt() answer during one lookup: the kernel's
\* answer, or no socket when the process is out of descriptors
LookupQueries == {Query, "nosock"}

\* bpftune_netns_fd_from_cookie(cookie)
NetnsFdFromCookie(cookie, q) ==
    \E f \in {bpftune_netns_find(
                  [SweepEnv(netns_cookie_supported) EXCEPT !.q = q],
                  global_netns_cookie, curns, bpftune_tuners, oob, mounts,
                  cookie)} :
        /\ curns' = f.ns
        /\ bpftune_tuners' = f.tab
        /\ oob' = f.beyond
        /\ last' = [op |-> "fd_from_cookie", cookie |-> cookie,
                    ret |-> f.ret, q |-> q, ev |-> f.ev]
        /\ UNCHANGED <<sysctl, envvars, bpfvars, logvars, bpftune_num_tuners, nsvars, rbvars>>

\* a module calls bpftuner_netns_init(tuner, cookie) for its tuner i
TunerNetnsInit(i, cookie, calloc_ok) ==
    /\ i \in Registered /\ i \in TableIndex
    /\ Len(bpftune_tuners[i].netns) < MaxNetns
    /\ bpftune_tuners' =
          [bpftune_tuners EXCEPT ![i] =
              bpftuner_netns_init(netns_cookie_supported, bpftune_tuners, oob,
                                  bpftune_num_tuners, @, cookie, calloc_ok)]
    /\ last' = [op |-> "netns_init", tuner |-> i, cookie |-> cookie,
                calloc_ok |-> calloc_ok,
                netns0 |-> bpftune_tuners[i].netns]
    /\ UNCHANGED <<kvars, envvars, bpfvars, logvars, bpftune_num_tuners, oob, nsvars, rbvars>>

\* a module calls bpftuner_netns_fini(tuner, cookie) for its tuner i
TunerNetnsFini(i, cookie) ==
    /\ i \in Registered /\ i \in TableIndex
    /\ bpftune_tuners' =
          [bpftune_tuners EXCEPT ![i] =
              bpftuner_netns_fini(netns_cookie_supported, @, cookie)]
    /\ last' = [op |-> "netns_fini", tuner |-> i, cookie |-> cookie,
                netns0 |-> bpftune_tuners[i].netns]
    /\ UNCHANGED <<kvars, envvars, bpfvars, logvars, bpftune_num_tuners, oob, nsvars, rbvars>>

(***************************************************************************)
(* Specifications.                                                         *)
(***************************************************************************)
NextSysctl ==
    \/ \E fd \in CallerFds, name \in Names, env \in Envs :
          SysctlReadCall(fd, name, env)
    \/ \E fd \in CallerFds, name \in Names, n \in 1..2, env \in Envs :
          \E values \in ValSeqs(n) : SysctlWriteCall(fd, name, n, values, env)
    \/ \E a \in InfoArgs, q \in Queries, env \in Envs : NetnsInfoCall(a, q, env)
    \/ \E ns \in Namespaces, values \in Buffers :
          ExternalWrite(NameN, ns, values)

SpecSysctl == Init /\ [][NextSysctl]_vars

Modes == {{"r", "w"}, {"r"}}
TunableFds == {0, BadFd} \cup {NsFd(n) : n \in Namespaces \ {GlobalNs}}

NextTunable ==
    \/ \E kind \in ModuleKinds, dl \in {"ok", "nodlopen"}, modinit \in {"ok", "fail"} :
          bpftune_num_tuners = 0 /\ BpftunerInit(kind, dl, modinit, FALSE)
    \/ \E tunable \in 0..1, s \in {0}, fd \in TunableFds, n \in 1..2 :
          \E values \in Buffers2 :
              TunableSysctlWriteCall(0, tunable, s, fd, n, values, EnvOk)
    \/ \E name \in {NameN, NameG}, ns \in Namespaces, values \in Buffers2 :
          ExternalWrite(name, ns, values)
    \/ \E mode \in Modes : ExternalMode(mode)

SpecTunable == Init /\ [][NextTunable]_vars

EventIds == 0..(BPFTUNE_MAX_TUNERS + MaxOverflow + 1)

NextReg ==
    \/ \E kind \in ModuleKinds, dl \in Modules, modinit \in {"ok", "fail"} :
          \E clobber \in BOOLEAN : BpftunerInit(kind, dl, modinit, clobber)
    \/ PollLoop
    \/ \E size_ok \in BOOLEAN, id \in EventIds : RingbufEvent(size_ok, id)
    \/ \E err \in {-1, 0} : PollReturn(err)
    \/ RingBufferFini

SpecReg == Init /\ [][NextReg]_vars

\* the occurrence counters: modules with two tunables, two scenarios each
StatsValues == <<1, 0, 0>>
NextStats ==
    \/ bpftune_num_tuners < BPFTUNE_MAX_TUNERS
          /\ BpftunerInit("ng", "ok", "ok", FALSE)
    \/ \E i \in TableIndex, tunable \in 0..2, s \in Scenarios, fd \in TunableFds :
          /\ TotalCount < MaxEvents
          /\ TunableSysctlWriteCall(i, tunable, s, fd, 1, StatsValues, EnvOk)
    \/ \E i \in TableIndex, tunable \in 0..2, s \in Scenarios, fd \in TunableFds :
          /\ TotalCount < MaxEvents
          /\ TunableUpdateCall(i, tunable, s, fd)

SpecStats == Init /\ [][NextStats]_vars

\* loading, counting and tearing down modules
NextTeardown ==
    \/ bpftune_num_tuners < BPFTUNE_MAX_TUNERS
          /\ BpftunerInit("ng", "ok", "ok", FALSE)
    \/ \E i \in TableIndex, tunable \in 0..1, s \in Scenarios, fd \in {0, 1} :
          /\ TotalCount < MaxEvents
          /\ TunableUpdateCall(i, tunable, s, fd)
    \/ \E i \in TableIndex, state \in States : BpftunerFini(i, state)
    \/ \E i \in TableIndex : BpftunerBpfFini(i)

SpecTeardown == Init /\ [][NextTeardown]_vars

\* events arriving while modules are loaded and torn down
NextEvents ==
    \/ bpftune_num_tuners < BPFTUNE_MAX_TUNERS
          /\ BpftunerInit("n", "ok", "ok", FALSE)
    \/ PollLoop
    \/ \E size_ok \in BOOLEAN, id \in EventIds : RingbufEvent(size_ok, id)
    \/ \E i \in TableIndex, state \in States : BpftunerFini(i, state)

SpecEvents == Init /\ [][NextEvents]_vars

\* the dispatcher alone: bpftune_ring_buffer_poll is called once, each
\* ring_buffer__poll returns, and the loop test is reached after it
NextPoll ==
    \/ bpftune_num_tuners < BPFTUNE_MAX_TUNERS
          /\ BpftunerInit("n", "ok", "ok", FALSE)
    \/ PollLoop
    \/ \E size_ok \in BOOLEAN, id \in EventIds : RingbufEvent(size_ok, id)
    \/ \E err \in {-1, 0} : PollReturn(err)
    \/ RingBufferFini

SpecPoll ==
    /\ Init
    /\ [][NextPoll]_vars
    /\ WF_vars(PollLoop)
    /\ WF_vars(\E err \in {-1, 0} : PollReturn(err))

\* /proc/mounts: up to MaxMounts entries
MountEntries ==
    {[type |-> "proc", ns |-> 0]}
    \cup {[type |-> "nsfs", ns |-> n] : n \in {0} \cup Namespaces}
MountTables ==
    UNION {[1..n -> MountEntries] : n \in 0..MaxMounts}

InitNetns == \E m \in MountTables, k \in BOOLEAN : InitWith(m, k)

\* a cookie no namespace has
DeadCookie == CookieOf(NumNs + 1)
LookupCookies == {0, DeadCookie} \cup {CookieOf(n) : n \in Namespaces}
ModuleCookies == {CookieOf(n) : n \in Namespaces}

NextNetns ==
    \/ bpftune_num_tuners < BPFTUNE_MAX_TUNERS
          /\ BpftunerInit("n", "ok", "ok", FALSE)
    \/ NetnsInitAll
    \/ \E c \in LookupCookies, q \in LookupQueries : NetnsFdFromCookie(c, q)
    \/ \E i \in TableIndex, c \in ModuleCookies, calloc_ok \in BOOLEAN :
          TunerNetnsInit(i, c, calloc_ok)
    \/ \E i \in TableIndex, c \in ModuleCookies : TunerNetnsFini(i, c)

SpecNetns == InitNetns /\ [][NextNetns]_vars

(***************************************************************************)
(* C1: when bpftune_sysctl_read, bpftune_sysctl_write or                   *)
(* bpftune_netns_info returns, the calling thread is in the network        *)
(* namespace it was in when the call began (the open of /proc/self/ns/net  *)
(* that the restore itself makes is taken to succeed).                     *)
(***************************************************************************)
C1_NamespaceRestored ==
    (last.op \in {"sysctl_read", "sysctl_write", "netns_info"} /\ last.renv)
        => curns = last.ns0

(***************************************************************************)
(* C2 as stated: of two successive bpftune_sysctl_write calls with the     *)
(* same descriptor, name and values, the second opens nothing for writing  *)
(* and returns 0, and the two open the file for writing exactly once.      *)
(***************************************************************************)
C2_SecondWriteSkipped ==
    (last.op = "sysctl_write" /\ last.rep)
        => /\ last.wopen = 0
           /\ last.ret = 0
           /\ last.pwopen + last.wopen = 1

\* the number of values a read of the setting last written yields, in the
\* namespace the write addressed
C2_KernelCount ==
    Fscanf(KContent(sysctl, bpftune_sysctl_name_to_path(last.name),
                    IF last.fd = 0 THEN last.ns0 ELSE FdNs(last.fd)))

(***************************************************************************)
(* C2 amended: if the first of the two calls wrote the values to the       *)
(* kernel and the kernel holds as many values for the setting as were      *)
(* written, the second call opens nothing for writing and writes nothing   *)
(* (the two calls open the file for writing exactly once), and it returns  *)
(* 0 unless its own namespace switch fails.                                *)
(***************************************************************************)
C2_SecondWriteSkippedAfterWrite ==
    (/\ last.op = "sysctl_write"
     /\ last.rep
     /\ last.pwrote
     /\ C2_KernelCount = last.num_values)
        => /\ last.wopen = 0
           /\ ~last.wrote
           /\ last.pwopen + last.wopen = 1
           /\ (last.ret = 0 \/ last.failed = "switch")

C2_Witness ==
    /\ last.op = "sysctl_write"
    /\ last.rep
    /\ last.pwrote
    /\ C2_KernelCount = last.num_values
    /\ last.skipped
    /\ last.fd # 0

(***************************************************************************)
(* C3: after a bpftuner_tunable_sysctl_write that returns 0 for values V   *)
(* on a registered tunable, the tunable's current_values are V, and a      *)
(* bpftune_sysctl_read of the tunable in the same namespace returns V.     *)
(***************************************************************************)
C3_After == bpftuner_tunable(TunerAt(last.tuner), last.tunable)
C3_ReadBack ==
    bpftune_sysctl_read(curns, sysctl, last.fd, last.before.desc.name,
                        Zeros(BPFTUNE_MAX_VALUES), EnvOk)

C3_SuccessMeansStored ==
    (/\ last.op = "tunable_sysctl_write"
     /\ last.before # NULL
     /\ last.num_values = last.before.desc.num_values
     /\ last.ret = 0)
        => /\ \A i \in 1..last.num_values :
                  C3_After.current_values[i] = last.values[i]
           /\ C3_ReadBack.ret = last.num_values
           /\ \A i \in 1..last.num_values :
                  C3_ReadBack.values[i] = last.values[i]

(***************************************************************************)
(* C4: when the kernel write inside bpftuner_tunable_sysctl_write fails    *)
(* (the switch fails, the pre-read fails, or the file cannot be opened     *)
(* for writing), the call returns non-zero, no occurrence counter is       *)
(* incremented and current_values is unchanged.                            *)
(***************************************************************************)
C4_FailedWriteLeavesTunable ==
    (/\ last.op = "tunable_sysctl_write"
     /\ last.before # NULL
     /\ last.w.failed \in {"switch", "preread", "wopen"})
        => /\ last.ret # 0
           /\ C3_After.stats = last.before.stats
           /\ C3_After.current_values = last.before.current_values

(***************************************************************************)
(* C5: bpftuner_init with BPFTUNE_MAX_TUNERS modules registered returns    *)
(* NULL, stores nothing past the end of the table and leaves the count     *)
(* and the entries unchanged; the count never exceeds BPFTUNE_MAX_TUNERS.  *)
(***************************************************************************)
C5_CapacityEnforced ==
    /\ bpftune_num_tuners <= BPFTUNE_MAX_TUNERS
    /\ oob = <<>>
    /\ (last.op = "bpftuner_init" /\ last.num0 >= BPFTUNE_MAX_TUNERS)
          => /\ last.ret = "NULL"
             /\ bpftune_num_tuners = last.num0
             /\ bpftune_tuners = last.tuners0

(***************************************************************************)
(* C6: an event whose tuner_id is not below the number of registered       *)
(* tuners invokes no event_handler, reads no slot of the tuner table       *)
(* outside the registered range, makes the callback return 0, and leaves   *)
(* ring_buffer__poll going on with the next event.                         *)
(***************************************************************************)
C6_UnregisteredIdIgnored ==
    (last.op = "event" /\ last.tuner_id >= last.num0)
        => /\ last.handler = -1
           /\ last.slots \subseteq 0..(last.num0 - 1)
           /\ last.ret = 0
           /\ pollpc = "polling"

C6_Witness ==
    /\ last.op = "event"
    /\ last.size_ok
    /\ last.num0 > 0
    /\ last.num0 <= BPFTUNE_MAX_TUNERS
    /\ last.tuner_id = BPFTUNE_MAX_TUNERS

(***************************************************************************)
(* C7: no tuner's namespace list holds two entries with the same cookie,   *)
(* whether cookies are supported or not, and bpftuner_netns_init(tuner, c) *)
(* adds nothing when the tuner has an entry for c.                         *)
(***************************************************************************)
C7_Entries(i) == bpftune_tuners[i].netns

C7_NoDuplicateCookie ==
    /\ \A i \in Registered \cap TableIndex :
          \A j, k \in 1..Len(C7_Entries(i)) :
              C7_Entries(i)[j] = C7_Entries(i)[k] => j = k
    /\ (/\ last.op = "netns_init"
        /\ \E j \in 1..Len(last.netns0) : last.netns0[j] = last.cookie)
          => C7_Entries(last.tuner) = last.netns0

(***************************************************************************)
(* C8: after bpftune_netns_init_all returns 0 on a kernel that answers     *)
(* the cookie query, every registered tuner has an entry for the cookie    *)
(* of every network namespace other than the daemon's own that an nsfs     *)
(* mount or a /proc/<pid>/ns/net link leads to.                            *)
(***************************************************************************)
C8_LiveNs ==
    {procs[p] : p \in DOMAIN procs}
    \cup {mounts[j].ns : j \in {k \in 1..Len(mounts) :
              mounts[k].type = "nsfs" /\ mounts[k].ns # 0}}

C8_SweepCoversNamespaces ==
    (last.op = "netns_init_all" /\ last.ret = 0 /\ kernel_cookie)
        => \A i \in Registered \cap TableIndex :
              \A n \in C8_LiveNs \ {GlobalNs} :
                  \E j \in 1..Len(C7_Entries(i)) :
                      C7_Entries(i)[j] = CookieOf(n)

(***************************************************************************)
(* C9: bpftune_netns_fd_from_cookie(c), with cookies supported and c       *)
(* neither 0 nor the global cookie, returns a descriptor only of a         *)
(* namespace whose cookie is c, and a negative value when no live          *)
(* namespace has cookie c.                                                 *)
(***************************************************************************)
C9_DescriptorMatchesCookie ==
    (/\ last.op = "fd_from_cookie"
     /\ netns_cookie_supported
     /\ last.cookie # 0
     /\ last.cookie # global_netns_cookie
     /\ last.cookie # CookieOf(GlobalNs))
        => /\ last.ret # 0
           /\ last.ret > 0
                 => IsNsFd(last.ret) /\ CookieOf(FdNs(last.ret)) = last.cookie
           /\ (\A n \in C8_LiveNs : CookieOf(n) # last.cookie)
                 => last.ret < 0

(***************************************************************************)
(* C10: bpftuner_tunable_sysctl_write on a tunable that is not             *)
(* namespaced hands descriptor 0 to bpftune_sysctl_write and makes no      *)
(* setns call, whatever descriptor the caller passes; a call that          *)
(* switches is a call on a namespaced tunable.                             *)
(***************************************************************************)
C10_Setns == {i \in 1..Len(last.w.ev) : last.w.ev[i][1] = "setns"}

C10_GlobalTunableNotSwitched ==
    (last.op = "tunable_sysctl_write" /\ last.before # NULL)
        => /\ (~last.before.desc.namespaced
                  => last.fd = 0 /\ C10_Setns = {} /\ curns = last.ns0)
           /\ (C10_Setns # {} => last.before.desc.namespaced)

C10_Witness ==
    /\ last.op = "tunable_sysctl_write"
    /\ last.before # NULL
    /\ ~last.before.desc.namespaced
    /\ last.netns_fd \notin {0, BadFd}
    /\ last.w.wrote
    /\ last.ret = 0

(***************************************************************************)
(* C19: bpftune_sysctl_read returns a negative value when the sysctl file  *)
(* cannot be opened and when the scan converts no value or fails; such a   *)
(* failure is never returned as a non-negative count.                      *)
(***************************************************************************)
C19_ReadFailureIsNegative ==
    (last.op = "sysctl_read" /\ last.failed) => last.ret < 0

(***************************************************************************)
(* C16: when bpftuner_init fails - the module cannot be opened, an entry   *)
(* point (init, fini, event_handler) is missing, or init returns non-zero  *)
(* - it returns NULL and the registry is as before the call: same count,   *)
(* same entries.                                                           *)
(***************************************************************************)
C16_FailedLoadLeavesRegistry ==
    (last.op = "bpftuner_init" /\ (last.dl # "ok" \/ last.modinit # "ok"))
        => /\ last.ret = "NULL"
           /\ bpftune_num_tuners = last.num0
           /\ bpftune_tuners = last.tuners0
           /\ oob = last.oob0

(***************************************************************************)
(* C17: every i below the count of tuners names a slot of the table that   *)
(* holds a tuner whose id is i, bpftune_tuner(i) is NULL for every other   *)
(* i, and no step changes the id of a registered tuner or lowers the       *)
(* count.                                                                  *)
(***************************************************************************)
C17_Dense ==
    /\ \A i \in Registered :
          /\ i \in TableIndex
          /\ bpftune_tuner(bpftune_tuners, oob, bpftune_num_tuners, i).tuner # NULL
          /\ bpftune_tuner(bpftune_tuners, oob, bpftune_num_tuners, i).tuner.id = i
    /\ \A i \in TunerIds \ Registered :
          bpftune_tuner(bpftune_tuners, oob, bpftune_num_tuners, i).tuner = NULL

C17_Stable ==
    /\ bpftune_num_tuners' >= bpftune_num_tuners
    /\ \A i \in Registered \cap TableIndex :
          bpftune_tuners'[i] # NULL /\ bpftune_tuners'[i].id = bpftune_tuners[i].id

C17_DenseStableIds == []C17_Dense /\ [][C17_Stable]_vars

(***************************************************************************)
(* C18: when bpftuner_init invokes the module's init, the tuner's id       *)
(* already is the id under which the tuner is registered if the load       *)
(* succeeds.                                                               *)
(***************************************************************************)
C18_IdAllocatedBeforeInit ==
    (last.op = "bpftuner_init" /\ last.ret = "tuner")
        => last.id_at_init = TunerAt(last.num0).id

(***************************************************************************)
(* C14: when ring_buffer__poll returns a negative value,                   *)
(* bpftune_ring_buffer_poll leaves the loop without another poll and       *)
(* returns a non-zero result, which differs from what it returns after a   *)
(* shutdown.                                                               *)
(***************************************************************************)
C14_PollErrorReported ==
    (last.op = "poll_return" /\ last.err < 0)
        => /\ pollpc = "returned"
           /\ last.ret # 0
           /\ last.ret # PollResult(0)

(***************************************************************************)
(* C15: once bpftune_ring_buffer_fini has raised ring_buffer_done, no new  *)
(* ring_buffer__poll is entered; the poll in flight completes, the loop    *)
(* exits, the ring buffer is freed exactly once, and                       *)
(* bpftune_ring_buffer_poll returns.                                       *)
(***************************************************************************)
C15_NoNewPoll ==
    ring_buffer_done => ~(pollpc # "polling" /\ pollpc' = "polling")

C15_FreedOnce ==
    /\ rb_freed <= 1
    /\ (pollpc = "returned" <=> rb_freed = 1)

C15_ShutdownEndsLoop ==
    /\ [][C15_NoNewPoll]_vars
    /\ []C15_FreedOnce
    /\ (ring_buffer_done ~> pollpc = "returned")

C15_Witness ==
    /\ ring_buffer_done
    /\ last.op = "poll_loop"
    /\ last.returned
    /\ last.inflight
    /\ rb_freed = 1

(***************************************************************************)
(* C20: a bpftuner_tunable_sysctl_write or bpftuner_tunable_update that    *)
(* returns 0 adds exactly 1 to exactly one occurrence counter - the        *)
(* global bucket of (tunable, scenario) when netns_fd is 0, the            *)
(* non-global bucket otherwise - and changes no other counter of any       *)
(* tunable of any tuner; with an invalid tunable index the call returns    *)
(* an error and changes no counter.                                        *)
(***************************************************************************)
C20_Stats(tab, i, k) == tab[i].tunables[k + 1].stats
C20_Hit(i, k, s, global_ns) ==
    /\ i = last.tuner
    /\ k = last.tunable
    /\ s = last.scenario
    /\ global_ns = (last.netns_fd = 0)
C20_Step(i, k, s, global_ns) == IF C20_Hit(i, k, s, global_ns) THEN 1 ELSE 0

C20_OneCounterIncremented ==
    (last.op \in {"tunable_sysctl_write", "tunable_update"})
        => /\ (last.before = NULL)
                 => last.ret # 0 /\ bpftune_tuners = last.tuners0
           /\ (last.before # NULL /\ last.ret = 0)
                 => \A i \in Registered \cap TableIndex :
                      \A k \in 0..(Len(bpftune_tuners[i].tunables) - 1) :
                        \A s \in Scenarios :
                          /\ C20_Stats(bpftune_tuners, i, k).global_ns[s] =
                               C20_Stats(last.tuners0, i, k).global_ns[s]
                               + C20_Step(i, k, s, TRUE)
                          /\ C20_Stats(bpftune_tuners, i, k).nonglobal_ns[s] =
                               C20_Stats(last.tuners0, i, k).nonglobal_ns[s]
                               + C20_Step(i, k, s, FALSE)

C20_Witness ==
    /\ last.op = "tunable_sysctl_write"
    /\ last.ret = 0
    /\ last.netns_fd # 0
    /\ last.tuner = 1
    /\ last.tunable = 1
    /\ last.scenario = 1
    /\ TunerCount(bpftune_tuners[0]) = 1
    /\ TotalCount = 2

(***************************************************************************)
(* C11: bpftuner_fini on a NULL tuner or on a tuner that is not            *)
(* BPFTUNE_ACTIVE changes no state and calls nothing; and as long as every *)
(* bpftuner_fini call on a tuner passed the final state BPFTUNE_INACTIVE,  *)
(* the tuner's fini entry point ran at most once and the summary of each   *)
(* (tunable, scenario, scope) of the tuner was logged at most once.        *)
(***************************************************************************)
C11_SkippedCallIsNoop ==
    (last'.op = "bpftuner_fini" /\ last'.skipped)
        => UNCHANGED <<kvars, envvars, regvars, nsvars, rbvars, bpfvars,
                       logvars>>
C11_CallsOn(i) == SelectSeq(fini_calls, LAMBDA c : c.tuner = i)
C11_LinesOn(i) == SelectSeq(summaries, LAMBDA l : l.tuner = i)
C11_OnlyInactive(i) ==
    \A k \in 1..Len(C11_CallsOn(i)) :
        C11_CallsOn(i)[k].state = "BPFTUNE_INACTIVE"
C11_Key(l) == <<l.tunable, l.scenario, l.global_ns>>
C11_AtMostOnce ==
    \A i \in TableIndex :
        C11_OnlyInactive(i)
            => /\ Len(SelectSeq(C11_CallsOn(i), LAMBDA c : c.fini)) <= 1
               /\ \A k, m \in 1..Len(C11_LinesOn(i)) :
                    C11_Key(C11_LinesOn(i)[k]) = C11_Key(C11_LinesOn(i)[m])
                        => k = m
C11_FiniAtMostOnce == [][C11_SkippedCallIsNoop]_vars /\ []C11_AtMostOnce

C11_Witness ==
    /\ last.op = "bpftuner_fini"
    /\ last.skipped
    /\ last.state = "BPFTUNE_INACTIVE"
    /\ bpftune_tuners[last.tuner] # NULL
    /\ Len(C11_CallsOn(last.tuner)) = 1
    /\ C11_OnlyInactive(last.tuner)
    /\ Len(C11_LinesOn(last.tuner)) = 2

(***************************************************************************)
(* C12: bpftuner_bpf_fini of one tuner, while another registered tuner is  *)
(* still BPFTUNE_ACTIVE, closes neither the descriptor held in             *)
(* ring_buffer_map_fd nor the one held in corr_map_fd, and leaves both     *)
(* globals as they were (never reset to 0).                                *)
(***************************************************************************)
C12_SharedFdsKeptWhileOthersActive ==
    (last.op = "bpftuner_bpf_fini" /\ last.others_active)
        => /\ last.rbfd0 \notin last.closed
           /\ last.cmfd0 \notin last.closed
           /\ ring_buffer_map_fd = last.rbfd0
           /\ corr_map_fd = last.cmfd0

(***************************************************************************)
(* C13: bpftuner_bpf_fini of the last tuner that was BPFTUNE_ACTIVE (no    *)
(* registered tuner is BPFTUNE_ACTIVE any more) finds the count of         *)
(* remaining tuners at zero, closes the shared descriptors and resets      *)
(* ring_buffer_map_fd and corr_map_fd to 0; once every loaded tuner has    *)
(* been torn down no shared descriptor is open.                            *)
(***************************************************************************)
C13_AllTornDown ==
    /\ bpftune_num_tuners > 0
    /\ \A i \in Registered \cap TableIndex :
          /\ bpftune_tuners[i].state # "BPFTUNE_ACTIVE"
          /\ bpftune_tuners[i].skeleton = "destroyed"
C13_LastTeardownReleasesShared ==
    /\ (last.op = "bpftuner_bpf_fini" /\ ~last.others_active)
          => /\ last.num = 0
             /\ last.rbfd0 \notin open_fds
             /\ last.cmfd0 \notin open_fds
             /\ ring_buffer_map_fd = 0
             /\ corr_map_fd = 0
    /\ C13_AllTornDown
          => /\ open_fds = {}
             /\ ring_buffer_map_fd = 0
             /\ corr_map_fd = 0

(***************************************************************************)
(* C21: bpftune_netns_fd_from_cookie returns 0 and opens no descriptor     *)
(* when the cookie is 0, when it is the cookie of the process's own        *)
(* (global) namespace as recorded in global_netns_cookie, or when the      *)
(* kernel does not support namespace cookies.                              *)
(***************************************************************************)
C21_NoSwitchNeeded ==
    \/ last.cookie = 0
    \/ last.cookie = global_netns_cookie
    \/ ~netns_cookie_supported
C21_NoLookupForOwnNamespace ==
    (last.op = "fd_from_cookie" /\ C21_NoSwitchNeeded)
        => last.ret = 0 /\ last.ev = <<>>

C21_Witness ==
    /\ last.op = "fd_from_cookie"
    /\ netns_cookie_supported
    /\ last.cookie = CookieOf(GlobalNs)
    /\ last.cookie = global_netns_cookie
    /\ last.ret = 0
    /\ last.ev = <<>>
    /\ \E k \in 1..Len(mounts) : mounts[k].ns = GlobalNs

(***************************************************************************)
(* C22: when bpftune_netns_init_all or bpftune_netns_fd_from_cookie        *)
(* returns, no descriptor the call opened (nsfs mount, /proc/<pid>/ns/net, *)
(* saved original namespace) is still open, except the one descriptor the  *)
(* call returns - also when the cookie query or the namespace switch       *)
(* failed on the way.                                                      *)
(***************************************************************************)
C22_Count(ev, what, fd) ==
    Cardinality({k \in 1..Len(ev) : ev[k] = <<what, fd>>})
C22_Opened(ev) == {ev[k][2] : k \in {j \in 1..Len(ev) : ev[j][1] = "open"}}
C22_Kept(fd) == IF last.ret > 0 /\ fd = last.ret THEN 1 ELSE 0
C22_LookupClosesDescriptors ==
    (last.op \in {"fd_from_cookie", "netns_init_all"})
        => \A fd \in C22_Opened(last.ev) :
              C22_Count(last.ev, "open", fd)
                  <= C22_Count(last.ev, "close", fd) + C22_Kept(fd)

(***************************************************************************)
(* C23: bpftune_ringbuf_event_read calls the event_handler of a tuner only *)
(* while the tuner is BPFTUNE_ACTIVE: after bpftuner_fini has set another  *)
(* state, events that carry the tuner's id are dropped without a call into *)
(* the module.                                                             *)
(***************************************************************************)
C23_HandlerOnlyWhileActive ==
    (last.op = "event" /\ last.handler >= 0)
        => bpftune_tuners[last.tuner_id].state = "BPFTUNE_ACTIVE"

(***************************************************************************)
(* C24: when bpftune_sysctl_read or bpftune_sysctl_write returns, every    *)
(* descriptor that bpftune_netns_set opened on /proc/self/ns/net during    *)
(* the call, the one remembering the original namespace included, has      *)
(* been closed exactly once: none is left open, none is closed twice, and  *)
(* close is never called with a negative descriptor.                       *)
(***************************************************************************)
C24_Count(what, fd) ==
    Cardinality({k \in 1..Len(last.ev) : last.ev[k] = <<what, fd>>})
C24_Touched == {last.ev[k][2] : k \in 1..Len(last.ev)}
C24_SelfFds == {SelfFd(n) : n \in Namespaces}
C24_OriginalClosedOnce ==
    (last.op \in {"sysctl_read", "sysctl_write"})
        => /\ \A fd \in C24_SelfFds :
                C24_Count("close", fd) = C24_Count("open", fd)
           /\ \A k \in 1..Len(last.ev) :
                last.ev[k][1] = "close" => last.ev[k][2] >= 0

(***************************************************************************)
(* C25: a bpftune_sysctl_write of a per-namespace setting with a non-zero  *)
(* namespace descriptor, once switched to that namespace, skips the kernel *)
(* write exactly when the setting already holds the requested values       *)
(* (same count, same contents) in the target namespace, whatever it holds  *)
(* in the global namespace.                                                *)
(***************************************************************************)
C25_Holds(content, num_values, values) ==
    /\ ~content.text
    /\ Len(content.nums) = num_values
    /\ \A i \in 1..num_values : content.nums[i] = values[i]
\* what the kernel holds for the setting in namespace n
C25_In(fs, n) == fs[bpftune_sysctl_name_to_path(NameN)].val[n]
C25_Step ==
    (/\ last'.op = "sysctl_write"
     /\ last'.name = NameN
     /\ IsNsFd(last'.fd)
     /\ last'.failed # "switch")
        => (last'.skipped <=>
               C25_Holds(C25_In(sysctl, FdNs(last'.fd)),
                         last'.num_values, last'.values))
C25_SuppressionFromTargetNamespace == [][C25_Step]_vars

C25_Witness ==
    /\ last.op = "sysctl_write"
    /\ last.name = NameN
    /\ last.fd = NsFd(NumNs)
    /\ last.skipped
    /\ last.num_values = 1
    /\ C25_In(sysctl, NumNs).nums = <<last.values[1]>>
    /\ C25_In(sysctl, GlobalNs).nums # <<last.values[1]>>
====
